---- MODULE Spec2Model ----
(***************************************************************************)
(* A model of real_code.py (Python 2): the date-to-query formatting        *)
(* (format_date_for_search, format_today_for_search) and the generator     *)
(* google_for_today, which reads the clock, fetches one results page and   *)
(* yields the destination URLs of its result links.                        *)
(*                                                                         *)
(* Text is modelled two ways.  Query strings are TLA+ strings built by     *)
(* concatenation.  An href, which the code parses, is a sequence of        *)
(* tokens: every punctuation character the parsers look at is a token of   *)
(* its own ("/", "?", "#", "&", ";", "=", ":", "[", "]", "+"), a percent   *)
(* escape is one token ("%3A"), and the text between them is cut in word   *)
(* tokens such that the letters "http" are always the token "http".        *)
(***************************************************************************)
EXTENDS Integers, Sequences, FiniteSets, TLC

VARIABLES
    clock,          \* the date datetime.date.today() returns
    todayCalls,     \* number of calls of datetime.date.today()
    arg,            \* the date handed to a direct format_date_for_search call
    op,             \* the formatting function that was called, or "none"
    ordinal_day,    \* format_date_for_search's local of that name
    result,         \* what the formatting function returned, or NoValue
    raised,         \* the exception the formatting function raised, or "none"
    pc,             \* where the generator google_for_today stands
    date,           \* google_for_today's local of that name
    requests,       \* the q parameter of every requests.get() issued
    response,       \* the response of requests.get(), or NoResponse
    parsed,         \* whether BeautifulSoup(response.content) was called
    idx,            \* position of the for loop in search_results
    yielded,        \* every URL the generator has yielded, in order
    err,            \* the exception that ended the generator, or "none"
    stops           \* number of StopIteration the generator has raised

fmtVars == <<arg, op, ordinal_day, result, raised>>
genVars == <<pc, date, requests, response, parsed, idx, yielded, err, stops>>
vars == <<clock, todayCalls, arg, op, ordinal_day, result, raised,
          pc, date, requests, response, parsed, idx, yielded, err, stops>>

NoValue == "<none>"
\* the value of response before requests.get() has returned
NoResponse == [status_code |-> 0, anchors |-> <<>>]

(***************************************************************************)
(* Bounds of the model.                                                    *)
(***************************************************************************)
\* years below and above the first year strftime() accepts
YearsBefore == 1
YearsAfter == 1
\* years after the year of the recorded fixture
FixtureSpan == 2
\* longest list of matched anchors in a results page
MaxAnchors == 2
\* most next() calls modelled on a finished generator
MaxStops == 2

(***************************************************************************)
(* datetime.date: the proleptic Gregorian calendar.                        *)
(***************************************************************************)
\* Python 2's date.strftime() refuses years before 1900
MinStrftimeYear == 1900
\* the year of the dates in tests.py
FixtureYear == 2014

is_leap(y) == y % 4 = 0 /\ (y % 100 # 0 \/ y % 400 = 0)

days_in_month(y, m) ==
    IF m = 2 THEN (IF is_leap(y) THEN 29 ELSE 28)
    ELSE IF m \in {4, 6, 9, 11} THEN 30 ELSE 31

RECURSIVE days_before_month(_, _)
days_before_month(y, m) ==
    IF m = 1 THEN 0 ELSE days_before_month(y, m - 1) + days_in_month(y, m - 1)

days_before_year(y) ==
    LET p == y - 1 IN p * 365 + p \div 4 - p \div 100 + p \div 400

toordinal(d) == days_before_year(d.year) + days_before_month(d.year, d.month) + d.day

\* date.weekday(): Monday is 0
weekday(d) == (toordinal(d) + 6) % 7

\* the years modelled: around 1900 (no leap year), the leap century 2000, and
\* from the fixture's year on
Years ==
    ((MinStrftimeYear - YearsBefore) .. (MinStrftimeYear + YearsAfter))
        \cup {2000} \cup (FixtureYear .. (FixtureYear + FixtureSpan))

\* every value datetime.date(year, month, day) accepts, for the years modelled
Dates ==
    { d \in [year : Years, month : 1 .. 12, day : 1 .. 31] :
        d.day <= days_in_month(d.year, d.month) }

Date(y, m, d) == [year |-> y, month |-> m, day |-> d]

(***************************************************************************)
(* str(int), str.format() and date.strftime() in the C locale.             *)
(***************************************************************************)
Digits == <<"0", "1", "2", "3", "4", "5", "6", "7", "8", "9">>

RECURSIVE str(_)
str(n) == IF n < 10 THEN Digits[n + 1] ELSE str(n \div 10) \o Digits[(n % 10) + 1]

DayNames ==
    <<"Monday", "Tuesday", "Wednesday", "Thursday", "Friday", "Saturday", "Sunday">>

MonthNames ==
    <<"January", "February", "March", "April", "May", "June", "July",
      "August", "September", "October", "November", "December">>

RECURSIVE Join(_)
Join(parts) == IF parts = <<>> THEN "" ELSE Head(parts) \o Join(Tail(parts))

\* template.format(ordinal_day=value): the replacement field is substituted
StrFormat(template, value) ==
    [i \in DOMAIN template |->
        IF template[i] = "{ordinal_day}" THEN value ELSE template[i]]

Directive(d, tok) ==
    CASE tok = "%A" -> DayNames[weekday(d) + 1]
      [] tok = "%B" -> MonthNames[d.month]
      [] tok = "%Y" -> str(d.year)
      [] OTHER -> tok

Returned(v) == [raised |-> "none", value |-> v]
Raised(e) == [raised |-> e, value |-> NoValue]

\* date.strftime(fmt): ValueError for a year before 1900 (Python 2)
strftime(d, fmt) ==
    IF d.year < MinStrftimeYear
        THEN Raised("ValueError")
        ELSE Returned(Join([i \in DOMAIN fmt |-> Directive(d, fmt[i])]))

(***************************************************************************)
(* real_code.py: the formatting functions.                                 *)
(***************************************************************************)
DATE_SEARCH_FORMAT == <<"%A", " ", "%B", " ", "{ordinal_day}", " ", "%Y">>

ORDINAL_SUFFIXES_NoTeens ==
    (1 :> "st") @@ (2 :> "nd") @@ (3 :> "rd") @@ (11 :> "st") @@ (12 :> "nd")
        @@ (13 :> "rd") @@ (21 :> "st") @@ (22 :> "nd") @@ (23 :> "rd") @@ (31 :> "st")

ORDINAL_SUFFIXES ==
    (1 :> "st") @@ (2 :> "nd") @@ (3 :> "rd") @@ (21 :> "st") @@ (22 :> "nd")
        @@ (23 :> "rd") @@ (31 :> "st")

\* dict.get(key, default)
DictGet(dict, key, default) == IF key \in DOMAIN dict THEN dict[key] ELSE default

OrdinalDay(d) == str(d.day) \o DictGet(ORDINAL_SUFFIXES, d.day, "th")

format_date_for_search(d) ==
    strftime(d, StrFormat(DATE_SEARCH_FORMAT, OrdinalDay(d)))

\* a direct call format_date_for_search(arg)
CallFormatDate ==
    /\ op = "none"
    /\ op' = "format_date_for_search"
    /\ ordinal_day' = OrdinalDay(arg)
    /\ result' = format_date_for_search(arg).value
    /\ raised' = format_date_for_search(arg).raised
    /\ UNCHANGED <<clock, todayCalls, arg>>
    /\ UNCHANGED genVars

CallFormatTodayTwice ==
    /\ op = "none"
    /\ op' = "format_today_for_search"
    /\ todayCalls' = todayCalls + 2
    /\ ordinal_day' = OrdinalDay(clock)
    /\ result' = format_date_for_search(clock).value
    /\ raised' = format_date_for_search(clock).raised
    /\ UNCHANGED <<clock, arg>>
    /\ UNCHANGED genVars

\* a call format_today_for_search()
CallFormatToday ==
    /\ op = "none"
    /\ op' = "format_today_for_search"
    /\ todayCalls' = todayCalls + 1
    /\ ordinal_day' = OrdinalDay(clock)
    /\ result' = format_date_for_search(clock).value
    /\ raised' = format_date_for_search(clock).raised
    /\ UNCHANGED <<clock, arg>>
    /\ UNCHANGED genVars

GenIdle ==
    /\ pc = "created"
    /\ date = NoValue
    /\ requests = <<>>
    /\ response = NoResponse
    /\ parsed = FALSE
    /\ idx = 0
    /\ yielded = <<>>
    /\ err = "none"
    /\ stops = 0

FormatInit ==
    /\ clock \in Dates
    /\ arg = clock
    /\ todayCalls = 0
    /\ op = "none"
    /\ ordinal_day = NoValue
    /\ result = NoValue
    /\ raised = "none"
    /\ GenIdle

FormatNext == CallFormatDate \/ CallFormatToday

FormatSpec == FormatInit /\ [][FormatNext]_vars

(***************************************************************************)
(* urlparse.urlparse(href).query and urlparse.parse_qs() of Python 2.7,    *)
(* over token sequences.                                                   *)
(***************************************************************************)
\* index of the first token of s that is in set, 0 when there is none
RECURSIVE FindFrom(_, _, _)
FindFrom(s, set, i) ==
    IF i > Len(s) THEN 0 ELSE IF s[i] \in set THEN i ELSE FindFrom(s, set, i + 1)

Find(s, set) == FindFrom(s, set, 1)

Before(s, i) == SubSeq(s, 1, i - 1)
After(s, i) == SubSeq(s, i + 1, Len(s))

\* s.split(sep): every piece between two separators
RECURSIVE Split(_, _)
Split(s, sep) ==
    LET i == Find(s, {sep})
    IN  IF i = 0 THEN <<s>> ELSE <<Before(s, i)>> \o Split(After(s, i), sep)

\* tokens that hold a character outside urlparse.scheme_chars
NonSchemeToks == {"/", "?", "#", "&", ";", "=", ":", "[", "]", "%3A", "%2F", " "}
\* tokens that are decimal numbers
DigitToks == {"80"}

\* the url with its scheme and the colon after it taken off
SchemeRest(url) ==
    LET i == Find(url, {":"})
        rest == After(url, i)
    IN  IF i > 1
            THEN IF Before(url, i) = <<"http">>
                    THEN rest
                    ELSE IF /\ \A k \in 1 .. (i - 1) : url[k] \notin NonSchemeToks
                            /\ (rest = <<>> \/ \E k \in DOMAIN rest : rest[k] \notin DigitToks)
                            THEN rest
                            ELSE url
            ELSE url

\* _splitnetloc(url, 2): the netloc ends at the first of / ? #
Netloc(url) ==
    LET body == SubSeq(url, 3, Len(url))
        delim == Find(body, {"/", "?", "#"})
    IN  IF delim = 0 THEN body ELSE Before(body, delim)

AfterNetloc(url) ==
    LET body == SubSeq(url, 3, Len(url))
        delim == Find(body, {"/", "?", "#"})
    IN  IF delim = 0 THEN <<>> ELSE SubSeq(body, delim, Len(body))

Has(s, tok) == Find(s, {tok}) # 0

InvalidIPv6(netloc) ==
    \/ Has(netloc, "[") /\ ~Has(netloc, "]")
    \/ Has(netloc, "]") /\ ~Has(netloc, "[")

\* the query of what is left after the netloc: the fragment goes first
QueryOf(url) ==
    LET nofrag == IF Has(url, "#") THEN Before(url, Find(url, {"#"})) ELSE url
    IN  IF Has(nofrag, "?") THEN After(nofrag, Find(nofrag, {"?"})) ELSE <<>>

\* urlparse(href).query, or the ValueError("Invalid IPv6 URL") of urlsplit
urlparse_query(href) ==
    LET url == SchemeRest(href)
        hasNetloc == Len(url) >= 2 /\ url[1] = "/" /\ url[2] = "/"
    IN  IF hasNetloc /\ InvalidIPv6(Netloc(url))
            THEN Raised("ValueError")
            ELSE Returned(QueryOf(IF hasNetloc THEN AfterNetloc(url) ELSE url))

\* unquote(s.replace('+', ' '))
UnquoteTok(t) ==
    CASE t = "+" -> " "
      [] t = "%3A" -> ":"
      [] t = "%2F" -> "/"
      [] OTHER -> t

Unquote(s) == [i \in DOMAIN s |-> UnquoteTok(s[i])]

RECURSIVE Flatten(_)
Flatten(ss) == IF ss = <<>> THEN <<>> ELSE Head(ss) \o Flatten(Tail(ss))

\* parse_qsl(qs): the (name, value) pairs with a non-blank value, in order
parse_qsl(qs) ==
    LET byAmp == Split(qs, "&")
        pairs == Flatten([i \in DOMAIN byAmp |-> Split(byAmp[i], ";")])
        HasValue(nv) == Has(nv, "=") /\ After(nv, Find(nv, {"="})) # <<>>
        kept == SelectSeq(pairs, HasValue)
    IN  [i \in DOMAIN kept |->
            [name |-> Unquote(Before(kept[i], Find(kept[i], {"="}))),
             value |-> Unquote(After(kept[i], Find(kept[i], {"="})))]]

\* parse_qs(qs).get(name): the values of name in order, <<>> for None
parse_qs_get(qs, name) ==
    LET pairs == parse_qsl(qs)
        Named(p) == p.name = name
        mine == SelectSeq(pairs, Named)
    IN  [i \in DOMAIN mine |-> mine[i].value]

\* str.startswith('http')
StartsWithHttp(s) == s # <<>> /\ s[1] = "http"

(***************************************************************************)
(* The results page: what google_soup.select('li.g h3.r a') matches.       *)
(***************************************************************************)
Href(toks) == [has_href |-> TRUE, href |-> toks]
NoHref == [has_href |-> FALSE, href |-> <<>>]

\* /url?q=http://example.com/x&sa=U
LinkExample ==
    Href(<<"/", "url", "?", "q", "=", "http", ":", "/", "/", "example.com", "/", "x",
           "&", "sa", "=", "U">>)
\* /url?q=/relative/path
LinkRelative == Href(<<"/", "url", "?", "q", "=", "/", "relative", "/", "path">>)
\* /search?sa=U
LinkNoQ == Href(<<"/", "search", "?", "sa", "=", "U">>)
\* /url?q=&q=https%3A%2F%2Fb.org%2F
LinkEscaped ==
    Href(<<"/", "url", "?", "q", "=", "&", "q", "=", "http", "s", "%3A", "%2F", "%2F",
           "b.org", "%2F">>)
\* /url?q=httpfoo
LinkHttpfoo == Href(<<"/", "url", "?", "q", "=", "http", "foo">>)
\* http://[bad/url?q=http://a.com/
LinkBadIPv6 ==
    Href(<<"http", ":", "/", "/", "[", "bad", "/", "url", "?", "q", "=", "http", ":",
           "/", "/", "a.com", "/">>)

Anchors == {LinkExample, LinkRelative, LinkNoQ, LinkEscaped, LinkHttpfoo, LinkBadIPv6, NoHref}

Pages == UNION { [1 .. n -> Anchors] : n \in 0 .. MaxAnchors }

StatusOK == 200
Statuses == {StatusOK, 204, 404}

(***************************************************************************)
(* real_code.py: the generator google_for_today, driven by next().         *)
(***************************************************************************)
\* the first next(): the body starts and reads the clock
Start ==
    /\ pc = "created"
    /\ date' = clock
    /\ todayCalls' = todayCalls + 1
    /\ pc' = "started"
    /\ UNCHANGED <<clock, requests, response, parsed, idx, yielded, err, stops>>
    /\ UNCHANGED fmtVars

\* requests.get('http://google.com/search', params={'q': format_date_for_search(date)})
Fetch ==
    /\ pc = "started"
    /\ LET q == format_date_for_search(date)
       IN  IF q.raised # "none"
               THEN /\ pc' = "raised"
                    /\ err' = q.raised
                    /\ UNCHANGED <<requests, response>>
               ELSE /\ requests' = Append(requests, q.value)
                    /\ \E status \in Statuses, anchors \in Pages :
                           response' = [status_code |-> status, anchors |-> anchors]
                    /\ pc' = "fetched"
                    /\ UNCHANGED err
    /\ UNCHANGED <<clock, todayCalls, date, parsed, idx, yielded, stops>>
    /\ UNCHANGED fmtVars

CheckStatusOnlyErrors ==
    /\ pc = "fetched"
    /\ IF response.status_code >= 400
           THEN /\ pc' = "raised"
                /\ err' = "ValueError"
                /\ UNCHANGED <<parsed, idx>>
           ELSE /\ parsed' = TRUE
                /\ idx' = 1
                /\ pc' = "loop"
                /\ UNCHANGED err
    /\ UNCHANGED <<clock, todayCalls, date, requests, response, yielded, stops>>
    /\ UNCHANGED fmtVars

\* the status check, then BeautifulSoup(response.content) and select()
CheckStatus ==
    /\ pc = "fetched"
    /\ IF response.status_code # StatusOK
           THEN /\ pc' = "raised"
                /\ err' = "ValueError"
                /\ UNCHANGED <<parsed, idx>>
           ELSE /\ parsed' = TRUE
                /\ idx' = 1
                /\ pc' = "loop"
                /\ UNCHANGED err
    /\ UNCHANGED <<clock, todayCalls, date, requests, response, yielded, stops>>
    /\ UNCHANGED fmtVars

\* what one pass of the loop body does with an anchor
LinkOutcome(link) ==
    IF ~link.has_href
        THEN Raised("KeyError")
        ELSE LET query_string == urlparse_query(link.href)
             IN  IF query_string.raised # "none"
                     THEN Raised(query_string.raised)
                     ELSE LET urls == parse_qs_get(query_string.value, <<"q">>)
                          IN  IF urls # <<>> /\ StartsWithHttp(urls[1])
                                  THEN Returned(<<urls[1]>>)
                                  ELSE Returned(<<>>)

\* one pass of "for link in search_results", or its end
LoopStep ==
    /\ pc = "loop"
    /\ IF idx > Len(response.anchors)
           THEN /\ pc' = "done"
                /\ stops' = stops + 1
                /\ UNCHANGED <<idx, yielded, err>>
           ELSE LET out == LinkOutcome(response.anchors[idx])
                IN  IF out.raised # "none"
                        THEN /\ pc' = "raised"
                             /\ err' = out.raised
                             /\ UNCHANGED <<idx, yielded, stops>>
                        ELSE /\ yielded' = yielded \o out.value
                             /\ idx' = idx + 1
                             /\ UNCHANGED <<pc, err, stops>>
    /\ UNCHANGED <<clock, todayCalls, date, requests, response, parsed>>
    /\ UNCHANGED fmtVars

NextAfterFinishedRestarts ==
    /\ pc \in {"done", "raised"}
    /\ stops < MaxStops
    /\ stops' = stops + 1
    /\ pc' = "created"
    /\ UNCHANGED <<clock, todayCalls, date, requests, response, parsed, idx, yielded, err>>
    /\ UNCHANGED fmtVars

\* next() on a generator that returned or raised: StopIteration, nothing else
NextAfterFinished ==
    /\ pc \in {"done", "raised"}
    /\ stops < MaxStops
    /\ stops' = stops + 1
    /\ UNCHANGED <<clock, todayCalls, date, requests, response, parsed, idx, yielded, err, pc>>
    /\ UNCHANGED fmtVars

\* the clock dates of the generator's runs: the fixture's, and both sides of 1900
GenDates ==
    {Date(FixtureYear, 1, 17), Date(MinStrftimeYear, 1, 1), Date(MinStrftimeYear - 1, 12, 31)}

Init ==
    /\ clock \in GenDates
    /\ arg = clock
    /\ todayCalls = 0
    /\ op = "none"
    /\ ordinal_day = NoValue
    /\ result = NoValue
    /\ raised = "none"
    /\ GenIdle

Next == Start \/ Fetch \/ CheckStatus \/ LoopStep \/ NextAfterFinished

Spec == Init /\ [][Next]_vars

(***************************************************************************)
(* What the claims expect, stated apart from the code.                     *)
(***************************************************************************)
SundayFirst ==
    <<"Sunday", "Monday", "Tuesday", "Wednesday", "Thursday", "Friday", "Saturday">>

MonthKey == <<0, 3, 2, 5, 0, 3, 5, 1, 4, 6, 2, 4>>

\* the day of the week by the month-key rule, Sunday is 0
ClaimedDayOfWeek(d) ==
    LET y == IF d.month < 3 THEN d.year - 1 ELSE d.year
    IN  (y + y \div 4 - y \div 100 + y \div 400 + MonthKey[d.month] + d.day) % 7

ClaimedSuffix(day) ==
    IF day \in {1, 21, 31} THEN "st"
    ELSE IF day \in {2, 22} THEN "nd"
    ELSE IF day \in {3, 23} THEN "rd"
    ELSE "th"

\* "<Weekday> <Month> <Day><Suffix> <Year>"
ClaimedQuery(d) ==
    SundayFirst[ClaimedDayOfWeek(d) + 1] \o " " \o MonthNames[d.month] \o " "
        \o str(d.day) \o ClaimedSuffix(d.day) \o " " \o str(d.year)

\* the first value of an anchor's q parameter, <<>> when it has none
ClaimedQ(link) ==
    IF ~link.has_href \/ urlparse_query(link.href).raised # "none"
        THEN <<>>
        ELSE LET urls == parse_qs_get(urlparse_query(link.href).value, <<"q">>)
             IN  IF urls = <<>> THEN <<>> ELSE urls[1]

\* the q values that begin with "http", in document order
RECURSIVE ClaimedURLs(_)
ClaimedURLs(anchors) ==
    IF anchors = <<>> THEN <<>>
    ELSE (IF StartsWithHttp(ClaimedQ(Head(anchors))) THEN <<ClaimedQ(Head(anchors))>> ELSE <<>>)
            \o ClaimedURLs(Tail(anchors))

ContainsSlashSlash(s) == \E i \in 1 .. (Len(s) - 1) : s[i] = "/" /\ s[i + 1] = "/"

Fetched == response # NoResponse
Finished == pc \in {"done", "raised"}

(***************************************************************************)
(* The claims.                                                             *)
(***************************************************************************)
\* C1: for every valid calendar date, format_date_for_search(date) returns
\* exactly "<Weekday> <Month> <Day><Suffix> <Year>", as in the four examples
\* of test_format_date.
C1_FormatExact ==
    op = "format_date_for_search" =>
        /\ raised = "none"
        /\ result = ClaimedQuery(arg)
        /\ (arg = Date(2014, 1, 1) => result = "Wednesday January 1st 2014")
        /\ (arg = Date(2014, 1, 2) => result = "Thursday January 2nd 2014")
        /\ (arg = Date(2014, 1, 3) => result = "Friday January 3rd 2014")
        /\ (arg = Date(2014, 1, 4) => result = "Saturday January 4th 2014")

\* C2: the ordinal day format_date_for_search computes for a day of month
\* 1..31 is the day in decimal followed by "st" for 1, 21, 31, "nd" for 2, 22,
\* "rd" for 3, 23 and "th" for every other day, the teens included.
C2_OrdinalSuffix ==
    op = "format_date_for_search" =>
        /\ ordinal_day = str(arg.day) \o ClaimedSuffix(arg.day)
        /\ (arg.day \in {11, 12, 13} => ordinal_day = str(arg.day) \o "th")

C2_Witness ==
    /\ op = "format_date_for_search"
    /\ arg.day = 12
    /\ ordinal_day = "12th"

\* C3: for every page fetched with status 200 the finished generator has
\* yielded, without error, exactly the first q values that begin with "http",
\* in document order.
C3_YieldsFirstQ ==
    (Fetched /\ Finished) =>
        (response.status_code = StatusOK =>
            /\ err = "none"
            /\ yielded = ClaimedURLs(response.anchors))

\* C4: when the fetch returns a status other than 200 the generator ends with
\* ValueError; the body is never parsed, no URL is ever yielded and no second
\* request is made.
C4_FetchFailureHalts ==
    (Fetched /\ response.status_code # StatusOK) =>
        /\ yielded = <<>>
        /\ ~parsed
        /\ Len(requests) = 1
        /\ pc \in {"fetched", "raised"}
        /\ (pc = "raised" => err = "ValueError")

C4_Witness ==
    /\ Fetched
    /\ response.status_code = 404
    /\ response.anchors = <<LinkExample>>
    /\ pc = "raised"
    /\ err = "ValueError"
    /\ stops >= 1

\* C5: during extraction an anchor whose href is malformed, or has no q
\* parameter, raises no error and does not halt the generator: once a page
\* whose anchors all carry an href was fetched with status 200, the generator
\* ends only by exhausting the anchors, every one of them processed.
C5_ExtractionNeverRaises ==
    (/\ Fetched
     /\ response.status_code = StatusOK
     /\ \A i \in DOMAIN response.anchors : response.anchors[i].has_href) =>
        /\ err = "none"
        /\ pc # "raised"
        /\ (pc = "done" => idx = Len(response.anchors) + 1)

\* C6: format_date_for_search never fails: for every valid date it returns a
\* query string and raises no error.
C6_FormatNeverFails ==
    op = "format_date_for_search" => (raised = "none" /\ result # NoValue)

\* C7: every URL the generator yields starts with "http" and contains "//".
C7_YieldedAbsolute ==
    \A i \in DOMAIN yielded :
        StartsWithHttp(yielded[i]) /\ ContainsSlashSlash(yielded[i])

\* C8: format_today_for_search() reads the clock exactly once and ends as
\* format_date_for_search of the clock's date does; with the clock at
\* 2014-01-17 it returns "Friday January 17th 2014".
C8_FormatToday ==
    op = "format_today_for_search" =>
        /\ todayCalls = 1
        /\ result = format_date_for_search(clock).value
        /\ raised = format_date_for_search(clock).raised
        /\ (clock = Date(2014, 1, 17) => result = "Friday January 17th 2014")

C8_Witness ==
    /\ op = "format_today_for_search"
    /\ clock = Date(2014, 1, 17)
    /\ todayCalls = 1
    /\ result = "Friday January 17th 2014"

\* C9: the generator is finite and one-shot: it yields at most one URL per
\* anchor it has passed, and once it has finished every further next() leaves
\* it finished, with no new URL, no new request, no new clock read and no
\* new extraction.
C9_OneShot ==
    /\ [](Len(yielded) <= (IF idx = 0 THEN 0 ELSE idx - 1))
    /\ [](Fetched => idx <= Len(response.anchors) + 1)
    /\ [][Finished =>
            /\ Finished'
            /\ yielded' = yielded
            /\ requests' = requests
            /\ todayCalls' = todayCalls
            /\ parsed' = parsed
            /\ idx' = idx]_vars

C9_Witness ==
    /\ pc = "done"
    /\ stops >= 2
    /\ Len(yielded) = 2

\* C10: in every run the clock is read once, then exactly one request is
\* issued, with q the formatted date, before any URL is yielded, and none
\* after it.
C10_OneRequest ==
    pc \notin {"created", "started"} =>
        /\ todayCalls = 1
        /\ Len(requests) = 1
        /\ requests[1] = ClaimedQuery(date)

====
